---- MODULE Spec2Model ----
(***************************************************************************)
(* The ray-casting sensor of crowd_navigation_mt                           *)
(* (sensors_depricated_PLR/ray_caster/ray_caster.py): the process-wide     *)
(* mesh registry RayCaster.meshes / RayCaster.mesh_views, the resolution   *)
(* pass of _initialize_warp_meshes with its vertex deduplication, the      *)
(* per-environment binding table, and the sensor operations reset and      *)
(* _update_buffers_impl.                                                   *)
(*                                                                         *)
(* Environment and instance indices are 1-based here (0-based in the       *)
(* source); a position p of a Python list is position p + 1 of the         *)
(* sequence that models it.                                                *)
(***************************************************************************)
EXTENDS Integers, Sequences, FiniteSets, TLC

(* ------------------------------ bounds -------------------------------- *)

\* number of environments of the scene (self._num_envs, self._view.count)
NumEnvs == 2
\* prims per environment that the local target expression "obj" matches
MeshesPerEnv == 2
\* sensor objects sharing the registry
NumSensors == 2
\* longest discovered path list of the stand-alone resolution pass
MaxPaths == 4
\* width of cfg.drift_range
DriftSpan == 1

Envs == 1..NumEnvs
Sensors == 1..NumSensors

(* ------------------------------ helpers ------------------------------- *)

Min(S) == CHOOSE m \in S : \A n \in S : m <= n

RECURSIVE SumSet(_, _)
SumSet(f, D) ==
    IF D = {} THEN 0
    ELSE LET k == CHOOSE k \in D : TRUE IN f[k] + SumSet(f, D \ {k})

\* Python dict assignment d[k] = v
Put(f, k, v) == [y \in (DOMAIN f) \cup {k} |-> IF y = k THEN v ELSE f[y]]

\* the empty dict
EmptyDict == [y \in {} |-> 0]

RECURSIVE Flatten(_)
Flatten(ss) == IF ss = <<>> THEN <<>> ELSE Head(ss) \o Flatten(Tail(ss))

\* the ascending index tensor of a set of instance indices
RECURSIVE Ascending(_)
Ascending(S) ==
    IF S = {} THEN <<>> ELSE <<Min(S)>> \o Ascending(S \ {Min(S)})

Range(q) == {q[i] : i \in DOMAIN q}

(* ---------------------- the scene (collaborators) --------------------- *)

\* A prim carries a vertex array (its shape and its values, one number
\* standing for all the values) and a world scale.
Prim(shape, raw, scale) ==
    [shape |-> shape, raw |-> raw, scale |-> scale, valid |-> TRUE]

\* a prim under which there is neither a primitive shape nor a Mesh
NoMeshPrim == [shape |-> 0, raw |-> 0, scale |-> 1, valid |-> FALSE]

\* "ground": one prim, shared by all environments.
GroundPrim == Prim(4, 1, 1)

\* "obj": MeshesPerEnv prims under every environment.  The first prim of
\* every environment has the same world-space geometry (stored with raw
\* vertices 2 and scale 1 in environment 1, raw 1 and scale 2 elsewhere); the
\* others differ between environments.
ObjPrim(e, j) ==
    IF j = 1
    THEN (IF e = 1 THEN Prim(8, 2, 1) ELSE Prim(8, 1, 2))
    ELSE Prim(8, 10 * e + j, 1)

\* "broken": a prim with a mesh, then one without.
BrokenPrims == <<Prim(8, 5, 1), NoMeshPrim>>

Exprs == {"ground", "obj", "broken", "none"}

\* sim_utils.find_matching_prim_paths: the ordered prims an expression
\* matches; environments are interleaved env1_obj1, env1_obj2, env2_obj1, ...
find_matching_prim_paths(x) ==
    CASE x = "ground" -> <<GroundPrim>>
      [] x = "obj" -> [i \in 1..(NumEnvs * MeshesPerEnv) |->
                          ObjPrim(((i - 1) \div MeshesPerEnv) + 1,
                                  ((i - 1) % MeshesPerEnv) + 1)]
      [] x = "broken" -> BrokenPrims
      [] OTHER -> <<>>

\* the capability UsdPhysics reports for the first prim of an expression
PrimApi(x) == IF x = "obj" THEN "rigid_body" ELSE "xform"

(* --------------------- the resolution pass (pure) --------------------- *)

\* an entry None of loaded_vertices; an array a is stored as <<a>>
None == <<>>

\* create_trimesh_from_geom_mesh / create_mesh_from_geom_shape, then
\* points *= resolve_world_scale(mesh_prim)
ScaledPoints(prim) == [shape |-> prim.shape, val |-> prim.raw * prim.scale]

\* a comparison that forgets the shapes
SameValuesOnly(reg_points, points) == reg_points.val = points.val

\* reg_points.shape == points.shape and (reg_points == points).all()
SameArray(reg_points, points) ==
    reg_points.shape = points.shape /\ reg_points.val = points.val

\* _registered_points_idx: the first registered index whose array equals
\* points, skipping None; -1 when there is none
registered_points_idx(points, registered_points) ==
    LET found == {idx \in 1..Len(registered_points) :
                     /\ registered_points[idx] # None
                     /\ SameArray(registered_points[idx][1], points)}
    IN IF found = {} THEN -1 ELSE Min(found)

\* The state of one pass over the paths of an expression: loaded_vertices
\* and wp_meshes of the source, the device memory gpu (gpu[h] is the vertex
\* array uploaded as handle h) and the number of extraction calls made.
PassStart(g) ==
    [loaded_vertices |-> <<>>, wp_meshes |-> <<>>, gpu |-> g, extracted |-> 0,
     err |-> ""]

\* the body of "for path in paths": raise if the prim holds no mesh;
\* otherwise extract, scale, look for a duplicate, reference the registered
\* mesh or upload a new one
LoadPath(st, prim) ==
    LET points == ScaledPoints(prim)
        registered_idx == registered_points_idx(points, st.loaded_vertices)
    IN IF ~prim.valid
       THEN [st EXCEPT !.err = "RuntimeError: invalid mesh prim"]
       ELSE IF registered_idx # -1
       THEN [st EXCEPT !.loaded_vertices = Append(@, None),
                       !.wp_meshes = Append(@, st.wp_meshes[registered_idx]),
                       !.extracted = @ + 1]
       ELSE [st EXCEPT !.loaded_vertices = Append(@, <<points>>),
                       !.gpu = Append(@, points),
                       !.wp_meshes = Append(@, Len(st.gpu) + 1),
                       !.extracted = @ + 1]

RECURSIVE LoadFrom(_, _, _)
LoadFrom(st, paths, i) ==
    IF i > Len(paths) \/ st.err # "" THEN st
    ELSE LoadFrom(LoadPath(st, paths[i]), paths, i + 1)

\* the whole loop over paths, starting from device memory g
ResolvePass(paths, g) == LoadFrom(PassStart(g), paths, 1)

\* a global target split like a local one
PartitionGlobalSplit(wp_meshes, E) ==
    [e \in 1..E |-> SubSeq(wp_meshes, (e - 1) * (Len(wp_meshes) \div E) + 1,
                           e * (Len(wp_meshes) \div E))]

\* [wp_meshes] * self._num_envs
PartitionGlobal(wp_meshes, E) == [e \in 1..E |-> wp_meshes]

\* len(wp_meshes) // self._num_envs
MeshesPerEnvOf(wp_meshes, E) == Len(wp_meshes) \div E

\* a split that takes every E-th mesh instead of a contiguous slice
PartitionStrided(wp_meshes, E) ==
    [e \in 1..E |-> [j \in 1..(Len(wp_meshes) \div E) |-> wp_meshes[(j - 1) * E + e]]]

\* the slices wp_meshes[mesh_idx : mesh_idx + n_meshes_per_env]
PartitionLocal(wp_meshes, E) ==
    LET n == MeshesPerEnvOf(wp_meshes, E)
    IN [e \in 1..E |-> SubSeq(wp_meshes, (e - 1) * n + 1, e * n)]

Partition(is_global, wp_meshes, E) ==
    IF is_global THEN PartitionGlobal(wp_meshes, E)
    ELSE PartitionLocal(wp_meshes, E)

(* ------------------------------- state -------------------------------- *)

VARIABLES
    meshes,       \* RayCaster.meshes: expression -> per-environment handle lists
    mesh_views,   \* RayCaster.mesh_views: expression -> pose-query view
    gpu,          \* device memory: gpu[h] is the vertex array uploaded as handle h
    calls,        \* per expression, the calls made on the scene collaborators
    sensors,      \* the sensor objects
    last,         \* the operation that ran last, with its arguments
    ld,           \* a resolution pass run path by path
    race,         \* initializers running statement by statement
    cam           \* a RayCasterCamera object

vars == <<meshes, mesh_views, gpu, calls, sensors, last, ld, race, cam>>

(* --------------------------- configurations --------------------------- *)

\* an entry of cfg.mesh_prim_paths: a bare string, or a RaycastTargetCfg
StrTarget(x) == [str |-> TRUE, target_prim_expr |-> x, is_global |-> FALSE]
Target(x, g) == [str |-> FALSE, target_prim_expr |-> x, is_global |-> g]

Cfg(path, targets, track) ==
    [prim_path |-> path, mesh_prim_paths |-> targets, track_mesh_transforms |-> track]

\* the sensor configurations explored; the leaf of prim_path is either a
\* plain name or holds a regex pattern
Cfgs ==
    { Cfg("plain", <<StrTarget("ground")>>, FALSE),
      Cfg("plain", <<Target("obj", FALSE)>>, FALSE),
      Cfg("plain", <<Target("obj", FALSE)>>, TRUE),
      Cfg("plain", <<Target("ground", TRUE), Target("obj", FALSE)>>, TRUE),
      Cfg("plain", <<Target("none", FALSE)>>, FALSE),
      Cfg("plain", <<Target("ground", TRUE), Target("none", FALSE)>>, TRUE),
      Cfg("plain", <<Target("broken", TRUE)>>, FALSE),
      Cfg("plain", <<>>, FALSE),
      Cfg("regex", <<StrTarget("ground")>>, FALSE) }

\* the configurations of the sensor that is run through updates and resets
TickCfgs ==
    { Cfg("plain", <<Target("obj", FALSE)>>, FALSE),
      Cfg("plain", <<Target("ground", TRUE), Target("obj", FALSE)>>, TRUE),
      Cfg("plain", <<Target("obj", TRUE)>>, TRUE) }

\* the values uniform_(*cfg.drift_range) can draw, for
\* cfg.drift_range = (1, 1 + DriftSpan)
DriftRange == 1..(1 + DriftSpan)

\* compute_world_poses(self._view, ...): the pose source's position of
\* instance i (poses do not move in this model)
SrcPos(i) == 10 * i

(* ------------------------------ sensors ------------------------------- *)

\* cfg.max_distance
MaxDist == 5

\* an entry of the zero-filled ray_hits_w: the hit position pos, and with
\* it the ray origin, mesh-id row and transform row it was computed from
ZeroHit == [pos |-> 0, origin |-> 0, dir |-> <<>>, mesh_ids |-> <<>>, xform_row |-> 0]

\* pattern_cfg.height, pattern_cfg.width: the rays of one instance
Height == 1
Width == 2
NumRays == Height * Width

\* cfg.pattern_cfg.func(cfg.pattern_cfg, device): the local ray starts and
\* directions of the configured pattern, one per ray
GridPattern ==
    [starts |-> [r \in 1..NumRays |-> 0], dirs |-> [r \in 1..NumRays |-> <<"grid", r>>]]

NoCfg == [prim_path |-> "plain", mesh_prim_paths |-> <<>>,
          track_mesh_transforms |-> FALSE]

\* a sensor object that has not been constructed
NoSensor ==
    [life |-> "absent", err |-> "", cfg |-> NoCfg,
     raycast_targets_cfg |-> <<>>, num_meshes_per_env |-> EmptyDict,
     meshes |-> <<>>, mesh_ids_wp |-> <<>>, mesh_views |-> <<>>,
     n_track |-> 0, mesh_positions_w |-> <<>>, has_view |-> FALSE,
     ray_starts |-> <<>>, ray_directions |-> <<>>, num_rays |-> 0,
     drift |-> <<>>, pos_w |-> <<>>, ray_hits_w |-> <<>>,
     distances |-> <<>>, ray_hit_mesh_idx |-> <<>>]

\* RayCaster.__init__, the loop over cfg.mesh_prim_paths: a bare string is
\* a global target
LegacyTarget(target) ==
    IF target.str
    THEN [target_prim_expr |-> target.target_prim_expr, is_global |-> TRUE]
    ELSE [target_prim_expr |-> target.target_prim_expr,
          is_global |-> target.is_global]

\* RayCaster.__init__: the object it leaves
Constructed(cfg) ==
    IF cfg.prim_path = "regex"
    THEN [NoSensor EXCEPT !.life = "failed", !.err = "RuntimeError: prim path",
                          !.cfg = cfg]
    ELSE [NoSensor EXCEPT
            !.life = "uninit", !.cfg = cfg,
            !.raycast_targets_cfg =
                [i \in 1..Len(cfg.mesh_prim_paths) |->
                    LegacyTarget(cfg.mesh_prim_paths[i])]]

Construct(s, cfg) ==
    /\ sensors[s].life = "absent"
    /\ sensors' = [sensors EXCEPT ![s] = Constructed(cfg)]
    /\ last' = [op |-> "construct", s |-> s, ids |-> <<>>, hits |-> {}]
    /\ UNCHANGED <<meshes, mesh_views, gpu, calls, ld, race, cam>>

(* --------------------- _initialize_warp_meshes ------------------------ *)

\* an entry of torch.zeros(num_envs, total_n_meshes_per_env, ...)
ZeroPose == <<>>

NoCalls == [expand |-> 0, extract |-> 0, upload |-> 0]

\* a lookup that never finds the expression
IsCachedNever(reg, x) == FALSE

\* "mesh_prim_path in RayCaster.meshes"
IsCached(reg, x) == x \in DOMAIN reg

\* the count a sensor records for an expression it finds in the registry:
\* len(RayCaster.meshes[mesh_prim_path]) // self._num_envs
CachedMeshesPerEnv(reg, x, E) == Len(reg[x]) \div E

\* an emptiness test that never finds the expansion empty
NoPrimsNever(paths) == FALSE

\* "if len(paths) == 0"
NoPrims(paths) == Len(paths) = 0

\* the view created for a tracked expression, of the kind its first prim
\* supports; it counts the prims the expression matches
CreateView(x) ==
    [expr |-> x, kind |-> PrimApi(x), count |-> Len(find_matching_prim_paths(x))]

\* the "if self.cfg.track_mesh_transforms" block that follows the caching of
\* a newly loaded expression
RegisterView(views, x, track) ==
    IF track THEN Put(views, x, CreateView(x)) ELSE views

\* One iteration of "for target_cfg in self._raycast_targets_cfg" on the
\* resolution state st = [meshes, mesh_views, gpu, calls, num, hits, err].
ResolveTarget(st, target_cfg, track, E) ==
    LET x == target_cfg.target_prim_expr
        paths == find_matching_prim_paths(x)
        pass == ResolvePass(paths, st.gpu)
    IN IF IsCached(st.meshes, x)
       THEN [st EXCEPT !.num = Put(@, x, CachedMeshesPerEnv(st.meshes, x, E)),
                       !.hits = @ \cup {x}]
       ELSE IF NoPrims(paths)
       THEN [st EXCEPT !.calls[x].expand = @ + 1,
                       !.err = "RuntimeError: no prim"]
       ELSE IF pass.err # ""
       THEN [st EXCEPT
               !.calls[x] = [expand |-> @.expand + 1,
                             extract |-> @.extract + pass.extracted,
                             upload |-> @.upload + (Len(pass.gpu) - Len(st.gpu))],
               !.gpu = pass.gpu,
               !.err = pass.err]
       ELSE [st EXCEPT
               !.calls[x] = [expand |-> @.expand + 1,
                             extract |-> @.extract + pass.extracted,
                             upload |-> @.upload + (Len(pass.gpu) - Len(st.gpu))],
               !.gpu = pass.gpu,
               !.meshes = Put(@, x, Partition(target_cfg.is_global, pass.wp_meshes, E)),
               !.num = Put(@, x, IF target_cfg.is_global THEN 1
                                 ELSE MeshesPerEnvOf(pass.wp_meshes, E)),
               !.mesh_views = RegisterView(@, x, track)]

\* the loop over the targets; a raised error ends it
RECURSIVE ResolveFrom(_, _, _, _, _)
ResolveFrom(st, targets, i, track, E) ==
    IF i > Len(targets) \/ st.err # "" THEN st
    ELSE ResolveFrom(ResolveTarget(st, targets[i], track, E), targets, i + 1, track, E)

\* a row built from the lists of the first environment
BindRowFirstEnv(reg, targets, env_idx) ==
    Flatten([t \in 1..Len(targets) |-> reg[targets[t].target_prim_expr][1]])

\* row env_idx of self._meshes: for every target, in configuration order,
\* extend by RayCaster.meshes[target_prim_expr][env_idx]
BindRow(reg, targets, env_idx) ==
    Flatten([t \in 1..Len(targets) |-> reg[targets[t].target_prim_expr][env_idx]])

\* m.id of a mesh handle
MeshId(h) == <<"id", h>>

\* wp.array2d([[m.id for m in b] for b in self._meshes])
MeshIdsWp(table) ==
    [e \in 1..Len(table) |-> [j \in 1..Len(table[e]) |-> MeshId(table[e][j])]]

\* _initialize_warp_meshes, then _initialize_rays_impl, on sensor record sn
\* with self._num_envs = E: the resolution state after it and the sensor
\* after it.  A registry entry with fewer than E lists makes the read
\* RayCaster.meshes[target_prim_expr][env_idx] of the binding loop raise.
InitializeOutcomeFor(sn, reg, views, g, cl, E) ==
    LET targets == sn.raycast_targets_cfg
        track == sn.cfg.track_mesh_transforms
        st0 == [meshes |-> reg, mesh_views |-> views, gpu |-> g, calls |-> cl,
                num |-> sn.num_meshes_per_env, hits |-> {}, err |-> ""]
        st == ResolveFrom(st0, targets, 1, track, E)
        viewed == [sn EXCEPT !.has_view = TRUE, !.num_meshes_per_env = st.num]
        none_found == \A t \in 1..Len(targets) :
                          targets[t].target_prim_expr \notin DOMAIN st.meshes
        total == SumSet(st.num, DOMAIN st.num)
        sized == [viewed EXCEPT
                    !.n_track = IF track THEN total ELSE @,
                    !.mesh_positions_w =
                        IF track THEN [e \in 1..E |-> [j \in 1..total |-> ZeroPose]]
                        ELSE @]
        short == \E t \in 1..Len(targets) :
                     Len(st.meshes[targets[t].target_prim_expr]) < E
        bound == [sized EXCEPT !.meshes =
                     [e \in 1..E |-> BindRow(st.meshes, targets, e)]]
        no_view == track /\ \E t \in 1..Len(targets) :
                        targets[t].target_prim_expr \notin DOMAIN st.mesh_views
        done == [bound EXCEPT
                   !.mesh_views = IF track
                                  THEN [t \in 1..Len(targets) |->
                                          st.mesh_views[targets[t].target_prim_expr]]
                                  ELSE @,
                   !.mesh_ids_wp = MeshIdsWp(bound.meshes),
                   !.ray_starts = [i \in 1..E |-> GridPattern.starts],
                   !.ray_directions = [i \in 1..E |-> GridPattern.dirs],
                   !.num_rays = Len(GridPattern.dirs),
                   !.drift = [i \in 1..E |-> 0],
                   !.pos_w = [i \in 1..E |-> 0],
                   !.ray_hits_w = [i \in 1..E |-> ZeroHit],
                   !.distances = [i \in 1..E |-> 0],
                   !.ray_hit_mesh_idx = [i \in 1..E |-> 0],
                   !.life = "init", !.err = ""]
    IN [st |-> st,
        sensor |->
          IF st.err # "" THEN [viewed EXCEPT !.life = "failed", !.err = st.err]
          ELSE IF none_found
          THEN [viewed EXCEPT !.life = "failed", !.err = "RuntimeError: no meshes"]
          ELSE IF short
          THEN [sized EXCEPT !.life = "failed", !.err = "IndexError: env_idx"]
          ELSE IF no_view
          THEN [bound EXCEPT !.life = "failed", !.err = "KeyError: mesh_views"]
          ELSE done]

\* the same in a scene of NumEnvs environments
InitializeOutcome(sn, reg, views, g, cl) ==
    InitializeOutcomeFor(sn, reg, views, g, cl, NumEnvs)

\* RayCaster._initialize_impl of a constructed (or invalidated) sensor
Initialize(s) ==
    /\ sensors[s].life \in {"uninit", "invalid"}
    /\ LET out == InitializeOutcome(sensors[s], meshes, mesh_views, gpu, calls)
       IN /\ meshes' = out.st.meshes
          /\ mesh_views' = out.st.mesh_views
          /\ gpu' = out.st.gpu
          /\ calls' = out.st.calls
          /\ sensors' = [sensors EXCEPT ![s] = out.sensor]
          /\ last' = [op |-> "initialize", s |-> s, ids |-> <<>>, hits |-> out.st.hits]
    /\ UNCHANGED <<ld, race, cam>>

\* RayCaster._initialize_impl of a constructed (or invalidated) sensor in a
\* scene for which self._num_envs is E
InitializeIn(s, E) ==
    /\ sensors[s].life \in {"uninit", "invalid"}
    /\ LET out == InitializeOutcomeFor(sensors[s], meshes, mesh_views, gpu, calls, E)
       IN /\ meshes' = out.st.meshes
          /\ mesh_views' = out.st.mesh_views
          /\ gpu' = out.st.gpu
          /\ calls' = out.st.calls
          /\ sensors' = [sensors EXCEPT ![s] = out.sensor]
          /\ last' = [op |-> "initialize", s |-> s, ids |-> <<>>, hits |-> out.st.hits]
    /\ UNCHANGED <<ld, race, cam>>

\* an invalidation that also empties the registry of the class
InvalidateClearsRegistry(s) ==
    /\ sensors[s].life \in {"init", "active"}
    /\ sensors' = [sensors EXCEPT ![s].life = "invalid", ![s].has_view = FALSE]
    /\ meshes' = EmptyDict
    /\ last' = [op |-> "invalidate", s |-> s, ids |-> <<>>, hits |-> {}]
    /\ UNCHANGED <<mesh_views, gpu, calls, ld, race, cam>>

\* an invalidation that keeps the view of the sensor
InvalidateKeepsView(s) ==
    /\ sensors[s].life \in {"init", "active"}
    /\ sensors' = [sensors EXCEPT ![s].life = "invalid"]
    /\ last' = [op |-> "invalidate", s |-> s, ids |-> <<>>, hits |-> {}]
    /\ UNCHANGED <<meshes, mesh_views, gpu, calls, ld, race, cam>>

\* RayCaster._invalidate_initialize_callback: the views are dropped
Invalidate(s) ==
    /\ sensors[s].life \in {"init", "active"}
    /\ sensors' = [sensors EXCEPT ![s].life = "invalid", ![s].has_view = FALSE]
    /\ last' = [op |-> "invalidate", s |-> s, ids |-> <<>>, hits |-> {}]
    /\ UNCHANGED <<meshes, mesh_views, gpu, calls, ld, race, cam>>

(* --------------------------- reset and update ------------------------- *)

\* the index tensors an update or a reset is called with
IndexLists == {Ascending(S) : S \in (SUBSET Envs) \ {{}}}

\* buf[env_ids] = vals
Scatter(buf, env_ids, vals) ==
    [i \in DOMAIN buf |->
        IF \E j \in DOMAIN env_ids : env_ids[j] = i
        THEN vals[CHOOSE j \in DOMAIN env_ids : env_ids[j] = i]
        ELSE buf[i]]

\* self.drift[env_ids].uniform_(*self.cfg.drift_range) on the buffer zeros:
\* indexing by the slice None resolves to gives a view, filled in place with
\* the drawn sample; indexing by an index list gives a copy, and the fill of
\* the copy leaves the buffer as it is
FillUniform(zeros, is_none, env_ids, sample) ==
    IF is_none THEN [i \in DOMAIN zeros |-> sample[i]] ELSE zeros

\* RayCaster.reset(env_ids): self.drift is replaced by zeros, then filled
ResetDrift(count, is_none, env_ids, sample) ==
    FillUniform([i \in 1..count |-> 0], is_none, env_ids, sample)

Reset(s, is_none, env_ids, sample) ==
    /\ sensors[s].life \in {"init", "active"}
    /\ sensors' = [sensors EXCEPT ![s].drift =
                       ResetDrift(NumEnvs, is_none, env_ids, sample)]
    /\ last' = [op |-> IF is_none THEN "reset(None)" ELSE "reset(ids)", s |-> s,
                ids |-> IF is_none THEN <<>> ELSE env_ids, hits |-> {}]
    /\ UNCHANGED <<meshes, mesh_views, gpu, calls, ld, race, cam>>

\* The intersection kernel: row j of the ray batch is cast against row j of
\* mesh_ids_wp under row j of the transforms it is handed.  It returns the
\* hit positions and the hit distances.  A ray (of direction 1) that meets
\* a mesh meets it at distance 1; a ray that meets none reports max_dist and
\* the point origin + max_dist * direction.  A hit position is recorded
\* together with what it was computed from.
raycast_dynamic_meshes(ray_starts_w, ray_directions_w, mesh_ids_wp, max_dist, xform_rows, miss) ==
    LET ray_distance == [j \in 1..Len(ray_starts_w) |-> IF miss THEN max_dist ELSE 1]
    IN << [j \in 1..Len(ray_starts_w) |->
              [pos |-> ray_starts_w[j] + ray_distance[j] * 1,
               origin |-> ray_starts_w[j], dir |-> ray_directions_w[j],
               mesh_ids |-> mesh_ids_wp[j], xform_row |-> xform_rows[j]]],
          ray_distance,
          [j \in 1..Len(ray_starts_w) |-> <<"normal", ray_directions_w[j]>>] >>

\* compute_world_poses(view, None): the pose of prim p of the expression
\* the view was created for (a pose is named by the prim it belongs to)
MeshPose(view, p) == <<view.expr, p>>

\* the number of slots of buf[:, mesh_idx : mesh_idx + count]: a slice is cut
\* down to the buffer
SliceWidth(M, mesh_idx, count) ==
    LET lo == IF mesh_idx < M THEN mesh_idx ELSE M
        hi == IF mesh_idx + count < M THEN mesh_idx + count ELSE M
    IN hi - lo

\* One iteration of "for view, target_cfg in zip(self._mesh_views,
\* self._raycast_targets_cfg)" on st = [buf, mesh_idx, err]: the poses of a
\* local target are viewed as [num_envs, count], those of a global target
\* are broadcast over the environments; the assignment to the slice raises
\* when the shapes do not fit.
TrackTarget(st, view, target_cfg, E) ==
    LET M == IF Len(st.buf) = 0 THEN 0 ELSE Len(st.buf[1])
        count == IF target_cfg.is_global THEN view.count ELSE view.count \div E
        w == SliceWidth(M, st.mesh_idx, count)
        src(e, j) == IF target_cfg.is_global THEN MeshPose(view, j)
                     ELSE MeshPose(view, (e - 1) * count + j)
    IN IF ~target_cfg.is_global /\ E * count # view.count
       THEN [st EXCEPT !.err = "RuntimeError: view shape"]
       ELSE IF count # w /\ count # 1
       THEN [st EXCEPT !.err = "RuntimeError: slice shape"]
       ELSE [st EXCEPT
               !.buf = [e \in 1..Len(st.buf) |->
                          [p \in 1..M |->
                              IF p > st.mesh_idx /\ p <= st.mesh_idx + w
                              THEN src(e, IF count = 1 THEN 1 ELSE p - st.mesh_idx)
                              ELSE st.buf[e][p]]],
               !.mesh_idx = @ + count]

RECURSIVE TrackFrom(_, _, _, _, _)
TrackFrom(st, views, targets, i, E) ==
    IF i > Len(views) \/ i > Len(targets) \/ st.err # "" THEN st
    ELSE TrackFrom(TrackTarget(st, views[i], targets[i], E), views, targets, i + 1, E)

\* the "if self.cfg.track_mesh_transforms" block of _update_buffers_impl
TrackMeshes(sn, E) ==
    IF sn.cfg.track_mesh_transforms
    THEN TrackFrom([buf |-> sn.mesh_positions_w, mesh_idx |-> 0, err |-> ""],
                   sn.mesh_views, sn.raycast_targets_cfg, 1, E)
    ELSE [buf |-> sn.mesh_positions_w, mesh_idx |-> 0, err |-> ""]

\* mesh_positions_w = self._mesh_positions_w[env_ids] when tracking, else None
TransformArg(track, env_ids) ==
    [j \in 1..Len(env_ids) |-> IF track THEN env_ids[j] ELSE 0]

\* the mesh_ids_wp argument of the kernel call
MeshIdsArg(mesh_ids_wp, env_ids) == mesh_ids_wp

\* buf[env_ids]
Gather(buf, env_ids) == [j \in 1..Len(env_ids) |-> buf[env_ids[j]]]

\* pos_w += self.drift[env_ids]
DriftedPos(drift, env_ids) ==
    [j \in 1..Len(env_ids) |-> SrcPos(env_ids[j]) + drift[env_ids[j]]]

\* RayCaster._update_buffers_impl(env_ids): the poses are stored, the mesh
\* transforms refreshed, the rays cast; an error raised by the refresh ends
\* the update after the poses were stored
Update(s, env_ids, miss) ==
    /\ sensors[s].life \in {"init", "active"}
    /\ LET sn == sensors[s]
           pos_w == DriftedPos(sn.drift, env_ids)
           tr == TrackMeshes(sn, NumEnvs)
           hits == raycast_dynamic_meshes(
                       pos_w, Gather(sn.ray_directions, env_ids),
                       MeshIdsArg(sn.mesh_ids_wp, env_ids), MaxDist,
                       TransformArg(sn.cfg.track_mesh_transforms, env_ids),
                       miss)[1]
       IN /\ sensors' = [sensors EXCEPT ![s] =
                 IF tr.err # ""
                 THEN [sn EXCEPT !.pos_w = Scatter(@, env_ids, pos_w),
                                 !.mesh_positions_w = tr.buf,
                                 !.err = tr.err]
                 ELSE [sn EXCEPT !.pos_w = Scatter(@, env_ids, pos_w),
                                 !.mesh_positions_w = tr.buf,
                                 !.ray_hits_w = Scatter(@, env_ids, hits),
                                 !.life = "active"]]
          /\ last' = [op |-> IF tr.err # "" THEN "update raised" ELSE "update",
                      s |-> s, ids |-> env_ids, hits |-> {}]
    /\ UNCHANGED <<meshes, mesh_views, gpu, calls, ld, race, cam>>

\* _update_buffers_impl of a sensor whose self._view is None (or not yet
\* created): compute_world_poses(self._view, env_ids) raises before anything
\* is stored
UpdateNoView(s, env_ids) ==
    /\ sensors[s].life \in {"uninit", "invalid"}
    /\ ~sensors[s].has_view
    /\ last' = [op |-> "update raised: no view", s |-> s, ids |-> <<>>, hits |-> {}]
    /\ UNCHANGED <<meshes, mesh_views, gpu, calls, sensors, ld, race, cam>>

\* reset of a sensor whose self._view is None (or not yet created):
\* self._view.count raises before self.drift is assigned
ResetNoView(s, env_ids) ==
    /\ sensors[s].life \in {"uninit", "invalid"}
    /\ ~sensors[s].has_view
    /\ last' = [op |-> "reset raised: no view", s |-> s, ids |-> <<>>, hits |-> {}]
    /\ UNCHANGED <<meshes, mesh_views, gpu, calls, sensors, ld, race, cam>>

(* --------------------------- RayCasterCamera -------------------------- *)

\* RayCasterCamera.UNSUPPORTED_TYPES
UNSUPPORTED_TYPES ==
    {"rgb", "instance_id_segmentation", "instance_id_segmentation_fast",
     "instance_segmentation", "instance_segmentation_fast",
     "semantic_segmentation", "skeleton_data", "motion_vectors",
     "bounding_box_2d_tight", "bounding_box_2d_tight_fast",
     "bounding_box_2d_loose", "bounding_box_2d_loose_fast",
     "bounding_box_3d", "bounding_box_3d_fast"}

\* the values of cfg.data_types explored ("depth" is a name the camera does
\* not know)
DataTypeLists ==
    { <<"distance_to_camera">>, <<"distance_to_image_plane", "normals">>,
      <<"rgb">>, <<"distance_to_camera", "rgb">>,
      <<"distance_to_camera", "depth">>, <<"depth", "motion_vectors">> }

\* the rest of the camera's configuration: one global target, no tracking
CamCfg == Cfg("plain", <<Target("ground", TRUE)>>, FALSE)

\* cfg.offset.pos
OffsetPos == 0

\* a check that lets every data type through
check_supported_always(data_types) == TRUE

\* _check_supported_data_types: no configured type is an unsupported one
check_supported_data_types(data_types) ==
    Range(data_types) \cap UNSUPPORTED_TYPES = {}

\* a camera object that has not been constructed.  base is the RayCaster
\* part of the object; cam_cam_data tells whether the attribute _cam_cam_data
\* holds a CameraData object, cam_data whether the name self._cam_data
\* resolves to one; the fields from pos_w to output are those of that object.
NoCam ==
    [life |-> "absent", err |-> "", data_types |-> <<>>, base |-> NoSensor,
     cam_cam_data |-> FALSE, cam_data |-> FALSE,
     frame |-> <<>>, pos_w |-> <<>>, intrinsic_matrices |-> <<>>,
     output |-> EmptyDict,
     ray_starts |-> <<>>, ray_directions |-> <<>>, num_rays |-> 0,
     ray_hits_w |-> <<>>]

\* RayCasterCamera.__init__: the check of the data types, RayCaster.__init__,
\* then self._cam_cam_data = CameraData().  No statement of the two classes
\* assigns self._cam_data, the name every other method reads: whether it
\* resolves is left open (resolves).
CamConstruct(data_types, resolves) ==
    /\ cam.life = "absent"
    /\ cam' = IF ~check_supported_data_types(data_types)
              THEN [NoCam EXCEPT !.life = "failed", !.data_types = data_types,
                                 !.err = "ValueError: unsupported data types"]
              ELSE [NoCam EXCEPT !.life = "uninit", !.data_types = data_types,
                                 !.base = Constructed(CamCfg),
                                 !.cam_cam_data = TRUE, !.cam_data = resolves]
    /\ last' = [op |-> "cam construct", s |-> 0, ids |-> <<>>, hits |-> {}]
    /\ UNCHANGED <<meshes, mesh_views, gpu, calls, sensors, ld, race>>

\* the zero image of a data type
ZeroImage(name) ==
    [shape |-> IF name = "normals" THEN <<Height, Width, 3>> ELSE <<Height, Width>>,
     val |-> <<>>]

\* the loop "for name in self.cfg.data_types" of _create_buffers on
\* st = [output, err]: a buffer per known name, ValueError at the first
\* unknown one
RECURSIVE AllocateFrom(_, _, _, _)
AllocateFrom(st, data_types, i, count) ==
    IF i > Len(data_types) \/ st.err # "" THEN st
    ELSE IF data_types[i] \in {"distance_to_image_plane", "distance_to_camera", "normals"}
    THEN AllocateFrom([st EXCEPT !.output =
                          Put(@, data_types[i], [k \in 1..count |-> ZeroImage(data_types[i])])],
                      data_types, i + 1, count)
    ELSE [st EXCEPT !.err = "ValueError: unknown data type"]

\* cfg.pattern_cfg.func(cfg.pattern_cfg, intrinsic_matrices, device): the
\* rays of one camera, derived from its intrinsic matrix K
PinholePattern(K) ==
    [starts |-> [r \in 1..NumRays |-> 0], dirs |-> [r \in 1..NumRays |-> <<K, r>>]]

\* RayCasterCamera._initialize_rays_impl on camera record c: the frame
\* counters, _create_buffers (drift, then the fields of self._cam_data, then
\* the output buffers), the intrinsic matrices of the configuration, the
\* rays, the hit buffer
InitializeCameraRays(c, count) ==
    LET framed == [c EXCEPT !.frame = [i \in 1..count |-> 0],
                            !.base.drift = [i \in 1..count |-> 0]]
        alloc == AllocateFrom([output |-> EmptyDict, err |-> ""],
                              c.data_types, 1, count)
        posed == [framed EXCEPT !.pos_w = [i \in 1..count |-> 0],
                                !.intrinsic_matrices = [i \in 1..count |-> "zeros"],
                                !.output = alloc.output]
    IN IF ~c.cam_data
       THEN [framed EXCEPT !.life = "failed", !.err = "AttributeError: _cam_data"]
       ELSE IF alloc.err # ""
       THEN [posed EXCEPT !.life = "failed", !.err = alloc.err]
       ELSE [posed EXCEPT
               !.intrinsic_matrices = [i \in 1..count |-> "K0"],
               !.ray_starts = [i \in 1..count |-> PinholePattern("K0").starts],
               !.ray_directions = [i \in 1..count |-> PinholePattern("K0").dirs],
               !.num_rays = Len(PinholePattern("K0").dirs),
               !.ray_hits_w = [i \in 1..count |-> ZeroHit],
               !.life = "init", !.err = ""]

\* the RayCaster part after _initialize_warp_meshes alone: the camera
\* overrides _initialize_rays_impl, so the base's buffers are not created
MeshesOnly(sn) ==
    [sn EXCEPT !.life = "init", !.ray_starts = <<>>, !.ray_directions = <<>>,
               !.num_rays = 0, !.drift = <<>>, !.pos_w = <<>>, !.ray_hits_w = <<>>,
               !.distances = <<>>, !.ray_hit_mesh_idx = <<>>]

\* RayCaster._initialize_impl of the camera
CamInitialize ==
    /\ cam.life = "uninit"
    /\ LET out == InitializeOutcome(cam.base, meshes, mesh_views, gpu, calls)
       IN /\ meshes' = out.st.meshes
          /\ mesh_views' = out.st.mesh_views
          /\ gpu' = out.st.gpu
          /\ calls' = out.st.calls
          /\ cam' = IF out.sensor.life = "failed"
                    THEN [cam EXCEPT !.base = out.sensor, !.life = "failed",
                                     !.err = out.sensor.err]
                    ELSE InitializeCameraRays(
                             [cam EXCEPT !.base = MeshesOnly(out.sensor)], NumEnvs)
          /\ last' = [op |-> "cam initialize", s |-> 0, ids |-> <<>>, hits |-> out.st.hits]
    /\ UNCHANGED <<sensors, ld, race>>

\* most update ticks an instance of the camera goes through between resets
MaxFrame == 2

\* _compute_camera_world_poses(env_ids): the pose of the view plus the
\* offset of the configuration
compute_camera_world_poses(env_ids) ==
    [j \in 1..Len(env_ids) |-> SrcPos(env_ids[j]) + OffsetPos]

\* the instances an argument env_ids selects: all of them for None
Selected(is_none, env_ids, count) ==
    IF is_none THEN [i \in 1..count |-> i] ELSE env_ids

\* the image written for a data type from the kernel's distances and normals
\* and the world ray directions of an instance
ImageOf(name, ray_depth, ray_normal, ray_directions_w) ==
    IF name = "normals"
    THEN [shape |-> <<Height, Width, 3>>, val |-> ray_normal]
    ELSE IF name = "distance_to_image_plane"
    THEN [shape |-> <<Height, Width>>, val |-> <<"along axis", ray_depth, ray_directions_w>>]
    ELSE [shape |-> <<Height, Width>>, val |-> <<ray_depth, ray_directions_w>>]

\* "self.ray_hits_w, ray_depth, ray_normal = raycast_dynamic_meshes(...)":
\* the attribute is bound to the kernel's result
StoreHits(ray_hits_w, env_ids, hits) == hits

\* self._frame[env_ids] += 1
IncrementFrame(frame, env_ids) ==
    Scatter(frame, env_ids, [j \in 1..Len(env_ids) |-> frame[env_ids[j]] + 1])

\* RayCasterCamera._update_buffers_impl(env_ids)
CamUpdate(env_ids) ==
    /\ cam.life \in {"init", "active"}
    /\ \A j \in 1..Len(env_ids) : cam.frame[env_ids[j]] < MaxFrame
    /\ LET pos_w == compute_camera_world_poses(env_ids)
           ray_directions_w == Gather(cam.ray_directions, env_ids)
           tr == TrackMeshes(cam.base, NumEnvs)
           res == raycast_dynamic_meshes(
                      pos_w, ray_directions_w,
                      MeshIdsArg(cam.base.mesh_ids_wp, env_ids), MaxDist,
                      TransformArg(cam.base.cfg.track_mesh_transforms, env_ids),
                      FALSE)
           started == [cam EXCEPT
                         !.frame = IncrementFrame(@, env_ids),
                         !.pos_w = Scatter(@, env_ids, pos_w),
                         !.base.mesh_positions_w = tr.buf]
       IN /\ cam' = IF tr.err # "" THEN [started EXCEPT !.err = tr.err]
                    ELSE [started EXCEPT
                            !.ray_hits_w = StoreHits(@, env_ids, res[1]),
                            !.output =
                                [name \in DOMAIN cam.output |->
                                    IF name \in Range(cam.data_types)
                                    THEN Scatter(cam.output[name], env_ids,
                                             [j \in 1..Len(env_ids) |->
                                                 ImageOf(name, res[2][j], res[3][j],
                                                         ray_directions_w[j])])
                                    ELSE cam.output[name]],
                            !.life = "active"]
          /\ last' = [op |-> IF tr.err # "" THEN "cam update raised" ELSE "cam update",
                      s |-> 0, ids |-> env_ids, hits |-> {}]
    /\ UNCHANGED <<meshes, mesh_views, gpu, calls, sensors, ld, race>>

\* RayCasterCamera.reset(env_ids): RayCaster.reset, then the poses of the
\* selected instances are recomputed and their frame counters zeroed
CamReset(is_none, env_ids, sample) ==
    /\ cam.life \in {"init", "active"}
    /\ LET ids == Selected(is_none, env_ids, NumEnvs)
       IN cam' = [cam EXCEPT
              !.base.drift = ResetDrift(NumEnvs, is_none, env_ids, sample),
              !.pos_w = Scatter(@, ids, compute_camera_world_poses(ids)),
              !.frame = Scatter(@, ids, [j \in 1..Len(ids) |-> 0])]
    /\ last' = [op |-> IF is_none THEN "cam reset(None)" ELSE "cam reset(ids)",
                s |-> 0, ids |-> IF is_none THEN <<>> ELSE env_ids, hits |-> {}]
    /\ UNCHANGED <<meshes, mesh_views, gpu, calls, sensors, ld, race>>

\* the camera's initialization stopped at the first read of self._cam_data
\* in _create_buffers: the view, the frame counters and the drift exist,
\* the fields of the data object and self._offset_pos do not
CamUnbound(c) == c.life = "failed" /\ c.err = "AttributeError: _cam_data"

\* _update_buffers_impl(env_ids) of such a camera: the frame counters are
\* incremented, then _compute_camera_world_poses raises
CamUpdateUnbound(env_ids) ==
    /\ CamUnbound(cam)
    /\ \A j \in 1..Len(env_ids) : cam.frame[env_ids[j]] < MaxFrame
    /\ cam' = [cam EXCEPT !.frame = IncrementFrame(@, env_ids)]
    /\ last' = [op |-> "cam update raised", s |-> 0, ids |-> env_ids, hits |-> {}]
    /\ UNCHANGED <<meshes, mesh_views, gpu, calls, sensors, ld, race>>

\* reset(env_ids) of such a camera: RayCaster.reset, then
\* _compute_camera_world_poses raises before the frame counters are zeroed
CamResetUnbound(is_none, env_ids, sample) ==
    /\ CamUnbound(cam)
    /\ cam' = [cam EXCEPT
                 !.base.drift = ResetDrift(NumEnvs, is_none, env_ids, sample)]
    /\ last' = [op |-> IF is_none THEN "cam reset(None) raised"
                       ELSE "cam reset(ids) raised",
                s |-> 0, ids |-> IF is_none THEN <<>> ELSE env_ids, hits |-> {}]
    /\ UNCHANGED <<meshes, mesh_views, gpu, calls, sensors, ld, race>>

\* new rays that replace those of every instance
SetRaysAll(rays, ids, new) == [i \in 1..Len(rays) |-> new[1]]

\* "self.ray_starts[env_ids], self.ray_directions[env_ids] = ...": the rows
\* of the selected instances are assigned
SetRays(rays, ids, new) == Scatter(rays, ids, new)

\* RayCasterCamera.set_intrinsic_matrices(matrices, env_ids=env_ids), with
\* one matrix K for every selected instance
set_intrinsic_matrices(is_none, env_ids, K) ==
    /\ cam.life \in {"init", "active"}
    /\ LET ids == Selected(is_none, env_ids, NumEnvs)
       IN cam' = [cam EXCEPT
              !.intrinsic_matrices = Scatter(@, ids, [j \in 1..Len(ids) |-> K]),
              !.ray_starts = SetRays(@, ids, [j \in 1..Len(ids) |-> PinholePattern(K).starts]),
              !.ray_directions = SetRays(@, ids, [j \in 1..Len(ids) |-> PinholePattern(K).dirs])]
    /\ last' = [op |-> "cam set_intrinsic_matrices", s |-> 0,
                ids |-> IF is_none THEN <<>> ELSE env_ids, hits |-> {}]
    /\ UNCHANGED <<meshes, mesh_views, gpu, calls, sensors, ld, race>>

(* --------------------------- specifications --------------------------- *)

LdIdle == [pc |-> "idle", paths |-> <<>>, is_global |-> FALSE, i |-> 0,
           st |-> PassStart(<<>>), out |-> <<>>]

Init ==
    /\ cam = NoCam
    /\ meshes = EmptyDict
    /\ mesh_views = EmptyDict
    /\ gpu = <<>>
    /\ calls = [x \in Exprs |-> NoCalls]
    /\ sensors = [s \in Sensors |-> NoSensor]
    /\ last = [op |-> "none", s |-> 0, ids |-> <<>>, hits |-> {}]
    /\ ld = LdIdle
    /\ race = <<>>

\* the sensors of a scene are constructed, initialized against the shared
\* registry, invalidated and initialized again
Next ==
    \E s \in Sensors :
        \/ \E cfg \in Cfgs : Construct(s, cfg)
        \/ Initialize(s)
        \/ Invalidate(s)

Spec == Init /\ [][Next]_vars

\* one sensor through construction, initialization, updates and resets
NextTick ==
    \E s \in {1} :
        \/ \E cfg \in TickCfgs : Construct(s, cfg)
        \/ Initialize(s)
        \/ Invalidate(s)
        \/ \E env_ids \in IndexLists, miss \in BOOLEAN : Update(s, env_ids, miss)
        \/ \E env_ids \in IndexLists : Reset(s, FALSE, env_ids, [i \in Envs |-> 0])
        \/ \E sample \in [Envs -> DriftRange] : Reset(s, TRUE, <<>>, sample)

SpecTick == Init /\ [][NextTick]_vars

\* one sensor through its whole life: construction, initialization,
\* updates and resets, invalidation, updates and resets attempted without a
\* view, initialization again; every ray meets a mesh and a reset of all
\* instances draws one value for all of them
NextLife ==
    \E s \in {1} :
        \/ \E cfg \in TickCfgs : Construct(s, cfg)
        \/ Initialize(s)
        \/ Invalidate(s)
        \/ \E env_ids \in IndexLists : Update(s, env_ids, FALSE)
        \/ \E env_ids \in IndexLists : Reset(s, FALSE, env_ids, [i \in Envs |-> 0])
        \/ \E d \in DriftRange : Reset(s, TRUE, <<>>, [i \in Envs |-> d])
        \/ \E env_ids \in IndexLists : UpdateNoView(s, env_ids)
        \/ \E env_ids \in IndexLists : ResetNoView(s, env_ids)

SpecLife == Init /\ [][NextLife]_vars

\* the configurations of the sensors that share registry entries: "obj" is
\* named as a local and as a global target, with and without tracking
RegCfgs ==
    { Cfg("plain", <<Target("obj", FALSE)>>, TRUE),
      Cfg("plain", <<Target("obj", TRUE)>>, FALSE),
      Cfg("plain", <<Target("ground", TRUE), Target("obj", FALSE)>>, FALSE) }

\* sensors over the shared registry, each initialized with any number of
\* environments up to NumEnvs; sensor 1 is also invalidated and initialized
\* again and, when initialized with NumEnvs environments, updated (all
\* instances) and reset (all instances, to the smallest drift)
NextReg ==
    \/ \E s \in Sensors :
          \/ \E cfg \in RegCfgs : Construct(s, cfg)
          \/ \E E \in 1..NumEnvs : InitializeIn(s, E)
    \/ Invalidate(1)
    \/ /\ Len(sensors[1].drift) = NumEnvs
       /\ Update(1, Ascending(Envs), FALSE)
    \/ /\ Len(sensors[1].drift) = NumEnvs
       /\ Reset(1, TRUE, <<>>, [i \in Envs |-> 1])

SpecReg == Init /\ [][NextReg]_vars

\* a camera through construction, initialization, updates, resets and
\* changes of its intrinsic matrices; a reset of all instances draws one
\* drift value for all of them
NextCam ==
    \/ \E data_types \in DataTypeLists, resolves \in BOOLEAN :
          CamConstruct(data_types, resolves)
    \/ CamInitialize
    \/ \E env_ids \in IndexLists : CamUpdate(env_ids)
    \/ \E env_ids \in IndexLists : CamReset(FALSE, env_ids, [i \in Envs |-> 0])
    \/ \E d \in DriftRange : CamReset(TRUE, <<>>, [i \in Envs |-> d])
    \/ \E env_ids \in IndexLists : set_intrinsic_matrices(FALSE, env_ids, "K1")
    \/ set_intrinsic_matrices(TRUE, <<>>, "K1")

SpecCam == Init /\ [][NextCam]_vars

\* a camera whose updates and resets take every instance, and whose
\* intrinsic matrices are set for any selection of instances
NextCamRays ==
    \/ \E data_types \in DataTypeLists, resolves \in BOOLEAN :
          CamConstruct(data_types, resolves)
    \/ CamInitialize
    \/ CamUpdate(Ascending(Envs))
    \/ \E d \in DriftRange : CamReset(TRUE, <<>>, [i \in Envs |-> d])
    \/ \E env_ids \in IndexLists : set_intrinsic_matrices(FALSE, env_ids, "K1")
    \/ set_intrinsic_matrices(TRUE, <<>>, "K1")

SpecCamRays == Init /\ [][NextCamRays]_vars

\* a camera whose updates and resets take any selection of instances, also
\* when its initialization stopped at self._cam_data; a reset of all
\* instances draws the smallest drift
NextCamFrames ==
    \/ \E data_types \in DataTypeLists, resolves \in BOOLEAN :
          CamConstruct(data_types, resolves)
    \/ CamInitialize
    \/ \E env_ids \in IndexLists : CamUpdate(env_ids)
    \/ \E env_ids \in IndexLists : CamReset(FALSE, env_ids, [i \in Envs |-> 0])
    \/ CamReset(TRUE, <<>>, [i \in Envs |-> 1])
    \/ \E env_ids \in IndexLists : CamUpdateUnbound(env_ids)
    \/ \E env_ids \in IndexLists : CamResetUnbound(FALSE, env_ids, [i \in Envs |-> 0])
    \/ CamResetUnbound(TRUE, <<>>, [i \in Envs |-> 1])

SpecCamFrames == Init /\ [][NextCamFrames]_vars

(* ------------------- a resolution pass, path by path ------------------ *)

\* the prims a discovered path list is drawn from: two with equal scaled
\* vertices, one with other values, one with another shape, one without a
\* mesh
LoadPrims == {Prim(8, 2, 1), Prim(8, 1, 2), Prim(8, 1, 1), Prim(4, 2, 1), NoMeshPrim}

PathLists == UNION {[1..n -> LoadPrims] : n \in 0..MaxPaths}

InitLoad ==
    /\ cam = NoCam
    /\ meshes = EmptyDict
    /\ mesh_views = EmptyDict
    /\ gpu = <<>>
    /\ calls = [x \in Exprs |-> NoCalls]
    /\ sensors = [s \in Sensors |-> NoSensor]
    /\ last = [op |-> "none", s |-> 0, ids |-> <<>>, hits |-> {}]
    /\ race = <<>>
    /\ \E paths \in PathLists, is_global \in BOOLEAN :
          ld = [pc |-> "expand", paths |-> paths, is_global |-> is_global, i |-> 1,
                st |-> PassStart(<<>>), out |-> <<>>]

\* "if len(paths) == 0: raise RuntimeError"
LoadExpand ==
    /\ ld.pc = "expand"
    /\ ld' = [ld EXCEPT !.pc = IF NoPrims(ld.paths) THEN "error" ELSE "loop"]
    /\ UNCHANGED <<meshes, mesh_views, gpu, calls, sensors, last, race, cam>>

\* one iteration of "for path in paths"
LoadStep ==
    /\ ld.pc = "loop"
    /\ ld.i <= Len(ld.paths)
    /\ LET st == LoadPath(ld.st, ld.paths[ld.i])
       IN ld' = IF st.err # "" THEN [ld EXCEPT !.st = st, !.pc = "error"]
                ELSE [ld EXCEPT !.st = st, !.i = @ + 1]
    /\ UNCHANGED <<meshes, mesh_views, gpu, calls, sensors, last, race, cam>>

\* after the loop: the per-environment lists stored under the expression
LoadPartition ==
    /\ ld.pc = "loop"
    /\ ld.i > Len(ld.paths)
    /\ ld' = [ld EXCEPT !.out = Partition(ld.is_global, ld.st.wp_meshes, NumEnvs),
                        !.pc = "done"]
    /\ UNCHANGED <<meshes, mesh_views, gpu, calls, sensors, last, race, cam>>

NextLoad == LoadExpand \/ LoadStep \/ LoadPartition

SpecLoad == InitLoad /\ [][NextLoad]_vars

(* ------------- initializers interleaved statement by statement -------- *)

\* The targets the racing initializers resolve.  The source takes no lock
\* around RayCaster.meshes, so the statements of two initializers running
\* _initialize_warp_meshes may interleave in any order.
RaceTargets == {Target("obj", FALSE), Target("ground", TRUE)}

RaceStart(target_cfg) ==
    [pc |-> "check", target_cfg |-> LegacyTarget(target_cfg), wp_meshes |-> <<>>,
     mesh_idx |-> 0, n_meshes_per_env |-> 0, appended |-> 0, seen_len |-> -1,
     uploads |-> 0]

InitRace ==
    /\ cam = NoCam
    /\ meshes = EmptyDict
    /\ mesh_views = EmptyDict
    /\ gpu = <<>>
    /\ calls = [x \in Exprs |-> NoCalls]
    /\ sensors = [s \in Sensors |-> NoSensor]
    /\ last = [op |-> "none", s |-> 0, ids |-> <<>>, hits |-> {}]
    /\ ld = LdIdle
    /\ \E tc \in [Sensors -> RaceTargets] :
          race = [t \in Sensors |-> RaceStart(tc[t])]

\* "if mesh_prim_path in RayCaster.meshes": on a hit the length of the entry
\* is read, otherwise the initializer goes on to load
RaceCheck(t) ==
    LET x == race[t].target_cfg.target_prim_expr
    IN /\ race[t].pc = "check"
       /\ race' = [race EXCEPT
             ![t].pc = IF IsCached(meshes, x) THEN "bind" ELSE "load",
             ![t].seen_len = IF IsCached(meshes, x) THEN Len(meshes[x]) ELSE @,
             ![t].n_meshes_per_env =
                 IF IsCached(meshes, x) THEN CachedMeshesPerEnv(meshes, x, NumEnvs) ELSE @]
       /\ UNCHANGED <<meshes, mesh_views, gpu, calls, sensors, last, ld, cam>>

\* find_matching_prim_paths and the loop over the paths
RaceLoad(t) ==
    LET x == race[t].target_cfg.target_prim_expr
        pass == ResolvePass(find_matching_prim_paths(x), gpu)
    IN /\ race[t].pc = "load"
       /\ gpu' = pass.gpu
       /\ calls' = [calls EXCEPT ![x] =
             [expand |-> @.expand + 1, extract |-> @.extract + pass.extracted,
              upload |-> @.upload + (Len(pass.gpu) - Len(gpu))]]
       /\ race' = [race EXCEPT ![t].pc = IF pass.err # "" THEN "error" ELSE "cache",
                               ![t].wp_meshes = pass.wp_meshes,
                               ![t].uploads = Len(pass.gpu) - Len(gpu)]
       /\ UNCHANGED <<meshes, mesh_views, sensors, last, ld, cam>>

\* the assignment to RayCaster.meshes[mesh_prim_path]: the replicated list
\* of a global target, the empty list of a local one
RaceCache(t) ==
    LET x == race[t].target_cfg.target_prim_expr
        w == race[t].wp_meshes
    IN /\ race[t].pc = "cache"
       /\ IF race[t].target_cfg.is_global
          THEN /\ meshes' = Put(meshes, x, PartitionGlobal(w, NumEnvs))
               /\ race' = [race EXCEPT ![t].pc = "bind", ![t].n_meshes_per_env = 1]
          ELSE /\ meshes' = Put(meshes, x, <<>>)
               /\ race' = [race EXCEPT ![t].pc = "append", ![t].mesh_idx = 0,
                             ![t].n_meshes_per_env = MeshesPerEnvOf(w, NumEnvs)]
       /\ UNCHANGED <<mesh_views, gpu, calls, sensors, last, ld, cam>>

\* one iteration of "for _ in range(self._num_envs)": append a slice
RaceAppend(t) ==
    LET x == race[t].target_cfg.target_prim_expr
        n == race[t].n_meshes_per_env
        lo == race[t].mesh_idx
    IN /\ race[t].pc = "append"
       /\ IF race[t].appended < NumEnvs
          THEN /\ meshes' = [meshes EXCEPT ![x] =
                     Append(@, SubSeq(race[t].wp_meshes, lo + 1, lo + n))]
               /\ race' = [race EXCEPT ![t].mesh_idx = lo + n, ![t].appended = @ + 1]
          ELSE /\ race' = [race EXCEPT ![t].pc = "bind"]
               /\ UNCHANGED meshes
       /\ UNCHANGED <<mesh_views, gpu, calls, sensors, last, ld, cam>>

\* the flattening loop reads RayCaster.meshes[expr][env_idx] for every
\* environment: an entry with fewer lists raises IndexError
RaceBind(t) ==
    LET x == race[t].target_cfg.target_prim_expr
    IN /\ race[t].pc = "bind"
       /\ race' = [race EXCEPT
             ![t].pc = IF Len(meshes[x]) < NumEnvs THEN "error" ELSE "done",
             ![t].seen_len = Len(meshes[x])]
       /\ UNCHANGED <<meshes, mesh_views, gpu, calls, sensors, last, ld, cam>>

NextRace ==
    \E t \in Sensors :
        \/ RaceCheck(t)
        \/ RaceLoad(t)
        \/ RaceCache(t)
        \/ RaceAppend(t)
        \/ RaceBind(t)

SpecRace == InitRace /\ [][NextRace]_vars

(* ------------------------------- claims ------------------------------- *)

\* the distinct scaled vertex arrays among the first n prims of paths
Fingerprints(paths, n) == {ScaledPoints(paths[i]) : i \in 1..n}

\* the sensors whose initialization has built the binding table
Bound(s) == sensors[s].life \in {"init", "active", "invalid"} /\ sensors[s].meshes # <<>>

\* C1 (as claimed): reset(env_ids=S) leaves the drift offset of every
\* instance that is not in S the same as it was before the reset.
C1_ResetKeepsUnselectedDrift ==
    [][\A s \in Sensors :
          (last'.op = "reset(ids)" /\ last'.s = s) =>
              \A i \in Envs \ Range(last'.ids) :
                  sensors'[s].drift[i] = sensors[s].drift[i]]_vars

\* C2 (as claimed): the hits stored for instance i were computed against
\* row i of the sensor's mesh-id table and, when transforms are tracked,
\* row i of the transform buffers.
C2_RaysUseOwnMeshRow ==
    \A s \in Sensors :
        sensors[s].life = "active" =>
            \A i \in Envs :
                sensors[s].ray_hits_w[i] # ZeroHit =>
                    /\ sensors[s].ray_hits_w[i].mesh_ids = sensors[s].mesh_ids_wp[i]
                    /\ sensors[s].cfg.track_mesh_transforms =>
                          sensors[s].ray_hits_w[i].xform_row = i

\* C3 (as claimed): of initializers racing on one expression only one
\* uploads its geometry, and none reads a registry entry that holds fewer
\* than NumEnvs per-environment lists.
C3_RegistrationSerialized ==
    /\ \A x \in Exprs :
          calls[x].upload <=
              Cardinality(Fingerprints(find_matching_prim_paths(x),
                                       Len(find_matching_prim_paths(x))))
    /\ \A t \in DOMAIN race : race[t].seen_len \in {-1, NumEnvs}

\* C4 (as claimed): for an expression in the registry the geometry source
\* has seen exactly one extraction call per distinct content fingerprint.
C4_OneExtractionPerFingerprint ==
    \A x \in DOMAIN meshes :
        calls[x].extract =
            Cardinality(Fingerprints(find_matching_prim_paths(x),
                                     Len(find_matching_prim_paths(x))))

\* C4 (amended): however often an expression is resolved, once it is in
\* the registry it has been expanded once, every discovered path has been
\* extracted once and every distinct scaled vertex array uploaded once, all
\* by the resolution that put it there; an expression whose prims all hold
\* meshes causes no extraction and no upload before that; device memory
\* holds exactly the uploads made.
C4_LoadedOnce ==
    /\ \A x \in Exprs :
          LET paths == find_matching_prim_paths(x)
          IN IF x \in DOMAIN meshes
             THEN /\ calls[x].expand = 1
                  /\ calls[x].extract = Len(paths)
                  /\ calls[x].upload = Cardinality(Fingerprints(paths, Len(paths)))
             ELSE (\A i \in 1..Len(paths) : paths[i].valid) =>
                      (calls[x].extract = 0 /\ calls[x].upload = 0)
    /\ Len(gpu) = SumSet([x \in Exprs |-> calls[x].upload], Exprs)

\* C4 witness: an initialization has just found "obj" in the registry, and
\* another sensor bound to "obj" exists.
C4_Witness ==
    /\ last.op = "initialize" /\ "obj" \in last.hits
    /\ sensors[last.s].life = "init"
    /\ \E s \in Sensors \ {last.s} :
          Bound(s) /\ "obj" \in DOMAIN sensors[s].num_meshes_per_env

\* the first path up to i whose scaled vertex array has the shape and the
\* values of path i's
FirstSame(paths, i) ==
    Min({j \in 1..i : ScaledPoints(paths[j]) = ScaledPoints(paths[i])})

\* C5: during and after a pass over paths p1..pn, the handle of every
\* processed path is the handle uploaded for the first path with the same
\* scaled vertex array, two paths share a handle only if they share that
\* first path, the uploads number the distinct arrays met so far, and the
\* finished handle list has one entry per path, in discovery order.
C5_DuplicateResolvesToFirstUpload ==
    ld.pc \in {"loop", "done"} =>
        LET w == ld.st.wp_meshes
            n == Len(w)
        IN /\ n = ld.i - 1
           /\ Len(ld.st.loaded_vertices) = n
           /\ ld.st.extracted = n
           /\ \A i \in 1..n :
                 /\ w[i] = w[FirstSame(ld.paths, i)]
                 /\ ld.st.gpu[w[i]] = ScaledPoints(ld.paths[FirstSame(ld.paths, i)])
           /\ \A i, j \in 1..n :
                 w[i] = w[j] => FirstSame(ld.paths, i) = FirstSame(ld.paths, j)
           /\ Len(ld.st.gpu) = Cardinality(Fingerprints(ld.paths, n))
           /\ ld.pc = "done" => n = Len(ld.paths)

\* C5 witness: a finished pass in which the third path duplicates the
\* second, itself a duplicate of the first (stored with another scale), and
\* a fourth path differs.
C5_Witness ==
    /\ ld.pc = "done" /\ Len(ld.paths) = 4
    /\ ld.paths[1] # ld.paths[2]
    /\ ld.st.wp_meshes[2] = ld.st.wp_meshes[1]
    /\ ld.st.wp_meshes[3] = ld.st.wp_meshes[1]
    /\ ld.st.wp_meshes[4] # ld.st.wp_meshes[1]
    /\ Len(ld.st.gpu) = 2

\* C6 (as claimed): a sensor that finds an expression in the registry
\* records, as its mesh-per-environment count, the number of handles each
\* environment's list of the entry holds, the count another sensor bound to
\* the expression has recorded.
C6_CachedCountIsHandlesPerEnv ==
    (last.op = "initialize" /\ sensors[last.s].life = "init") =>
        \A x \in last.hits :
            \A r \in Sensors \ {last.s} :
                (sensors[r].life = "init" /\ x \in DOMAIN sensors[r].num_meshes_per_env) =>
                    /\ \A e \in Envs :
                          sensors[last.s].num_meshes_per_env[x] = Len(meshes[x][e])
                    /\ sensors[last.s].num_meshes_per_env[x] =
                          sensors[r].num_meshes_per_env[x]

\* C7: the entry of a local target whose discovered handle list has length
\* NumEnvs * k holds NumEnvs chunks, chunk e the handles at positions
\* (e-1)*k+1 .. e*k of the list in discovery order; together they are the
\* list.
C7_LocalChunksContiguous ==
    (ld.pc = "done" /\ ~ld.is_global /\ Len(ld.st.wp_meshes) % NumEnvs = 0) =>
        LET w == ld.st.wp_meshes
            k == Len(w) \div NumEnvs
        IN /\ Len(ld.out) = NumEnvs
           /\ \A e \in Envs :
                 /\ Len(ld.out[e]) = k
                 /\ \A j \in 1..k : ld.out[e][j] = w[(e - 1) * k + j]
           /\ Flatten(ld.out) = w

\* C7 witness: a local list of length 2 * NumEnvs whose chunks differ.
C7_Witness ==
    /\ ld.pc = "done" /\ ~ld.is_global
    /\ Len(ld.st.wp_meshes) = 2 * NumEnvs
    /\ ld.out[1] # ld.out[2]
    /\ ld.out[1][1] # ld.out[1][2]

\* C8: the entry of a global target has NumEnvs slots, every slot is the
\* discovered handle list itself (same length, handles and order), and
\* nothing was uploaded beyond the distinct arrays of the list.
C8_GlobalSlotsIdentical ==
    (ld.pc = "done" /\ ld.is_global) =>
        /\ Len(ld.out) = NumEnvs
        /\ \A e \in Envs : ld.out[e] = ld.st.wp_meshes
        /\ Len(ld.st.wp_meshes) = Len(ld.paths)
        /\ Len(ld.st.gpu) = Cardinality(Fingerprints(ld.paths, Len(ld.paths)))

\* C8 witness: a global list of several handles, two of them different.
C8_Witness ==
    /\ ld.pc = "done" /\ ld.is_global
    /\ Len(ld.st.wp_meshes) >= 2
    /\ ld.st.wp_meshes[1] # ld.st.wp_meshes[2]
    /\ ld.out[NumEnvs] = ld.st.wp_meshes

\* where the handles of target t start in row e of a binding table
RECURSIVE SlotOffset(_, _, _)
SlotOffset(targets, t, e) ==
    IF t = 1 THEN 0
    ELSE SlotOffset(targets, t - 1, e)
             + Len(meshes[targets[t - 1].target_prim_expr][e])

\* C9: in the binding table of every initialized sensor, row e holds, for
\* each target in configuration order, the registry's environment-e list
\* of that target and nothing else; the mesh-id table has the same shape and
\* holds the id of the handle at each position; the geometry a local target
\* contributes to row e is that of environment e's own prims.
C9_BindingRowsPerEnvironment ==
    \A s \in Sensors :
        sensors[s].life = "init" =>
            LET sn == sensors[s]
                T == sn.raycast_targets_cfg
            IN /\ Len(sn.meshes) = NumEnvs
               /\ Len(sn.mesh_ids_wp) = NumEnvs
               /\ \A e \in Envs :
                     /\ Len(sn.meshes[e]) = SlotOffset(T, Len(T), e)
                                              + Len(meshes[T[Len(T)].target_prim_expr][e])
                     /\ \A t \in 1..Len(T) :
                           LET x == T[t].target_prim_expr
                               off == SlotOffset(T, t, e)
                               paths == find_matching_prim_paths(x)
                               k == Len(paths) \div NumEnvs
                           IN \A j \in 1..Len(meshes[x][e]) :
                                 /\ sn.meshes[e][off + j] = meshes[x][e][j]
                                 /\ ~T[t].is_global =>
                                       gpu[sn.meshes[e][off + j]] =
                                           ScaledPoints(paths[(e - 1) * k + j])
                     /\ Len(sn.mesh_ids_wp[e]) = Len(sn.meshes[e])
                     /\ \A p \in 1..Len(sn.meshes[e]) :
                           sn.mesh_ids_wp[e][p] = MeshId(sn.meshes[e][p])

\* C9 witness: a sensor initialized on a global and a local target whose
\* rows differ between the environments, beside another initialized sensor.
C9_Witness ==
    \E s \in Sensors :
        /\ sensors[s].life = "init"
        /\ Len(sensors[s].raycast_targets_cfg) = 2
        /\ sensors[s].meshes[1] # sensors[s].meshes[2]
        /\ \E r \in Sensors \ {s} : sensors[r].life = "init"

\* C10 (as claimed): a sensor with transform tracking that has resolved
\* its targets finds a registered view for every one of its target
\* expressions.
C10_TrackedTargetsHaveViews ==
    \A s \in Sensors :
        (sensors[s].cfg.track_mesh_transforms /\ sensors[s].meshes # <<>>) =>
            \A t \in 1..Len(sensors[s].raycast_targets_cfg) :
                sensors[s].raycast_targets_cfg[t].target_prim_expr \in DOMAIN mesh_views

\* C11 (as claimed): for a sensor that tracks transforms, the position
\* buffer has as many slots per environment as the row of the binding table
\* has handles, no tracker write raises, and after an update slot off + j of
\* environment e holds the pose of the prim whose mesh is in column off + j
\* of binding row e, off being the slots of the targets before.
C11_TrackerSlotsMatchBinding ==
    \A s \in Sensors :
        LET sn == sensors[s]
            T == sn.raycast_targets_cfg
        IN (sn.cfg.track_mesh_transforms /\ sn.life \in {"init", "active"}) =>
              /\ sn.err = ""
              /\ \A e \in Envs :
                    /\ Len(sn.mesh_positions_w[e]) = Len(sn.meshes[e])
                    /\ sn.life = "active" =>
                          \A t \in 1..Len(T) :
                              LET x == T[t].target_prim_expr
                                  k == Len(meshes[x][e])
                                  off == SlotOffset(T, t, e)
                              IN \A j \in 1..k :
                                    sn.mesh_positions_w[e][off + j] =
                                        MeshPose(sn.mesh_views[t],
                                                 IF T[t].is_global THEN j
                                                 ELSE (e - 1) * k + j)

\* C17 (as claimed): for every instance whose stored hit is that of a ray
\* that met no mesh, the stored hit position is origin + max_dist * direction
\* and the stored hit distance is max_dist.
C17_MissStoresMaxDist ==
    \A s \in Sensors :
        sensors[s].life = "active" =>
            \A i \in Envs :
                LET hit == sensors[s].ray_hits_w[i]
                IN (hit # ZeroHit /\ hit.pos - hit.origin >= MaxDist) =>
                      /\ hit.pos = hit.origin + MaxDist * 1
                      /\ sensors[s].distances[i] = MaxDist

\* C19 (as claimed): after an update the stored hit distance of every
\* updated instance is the distance of its stored hit position from the ray
\* origin of the same tick.
C19_DistancesFollowHits ==
    \A s \in Sensors :
        (last.op = "update" /\ last.s = s) =>
            \A i \in Range(last.ids) :
                sensors[s].distances[i] =
                    sensors[s].ray_hits_w[i].pos - sensors[s].ray_hits_w[i].origin

\* the lifecycle state of the specification a sensor object is in; a sensor
\* whose initialization raised has not become Initialized
Lifecycle(sn) ==
    CASE sn.life \in {"uninit", "failed"} -> "Uninitialized"
      [] sn.life = "init" -> "Initialized"
      [] sn.life = "active" -> "Active"
      [] sn.life = "invalid" -> "Invalidated"
      [] OTHER -> "none"

ResetOps == {"reset(None)", "reset(ids)", "reset raised: no view"}
UpdateOps == {"update", "update raised", "update raised: no view"}

\* what invalidation and reset do in C14, claimed and amended alike:
\* an invalidated sensor holds no view and an update attempted on it changes
\* nothing; a reset changes nothing of the sensor but its drift
LifecycleEffects(s) ==
    /\ sensors'[s].life = "invalid" => ~sensors'[s].has_view
    /\ (sensors[s].life = "invalid" /\ last'.s = s /\ last'.op \in UpdateOps) =>
           sensors'[s] = sensors[s]
    /\ (last'.s = s /\ last'.op \in ResetOps) =>
           sensors'[s] = [sensors[s] EXCEPT !.drift = sensors'[s].drift]

Initializing(s) ==
    /\ sensors[s].life \in {"uninit", "invalid"}
    /\ last'.op = "initialize" /\ last'.s = s

\* the target expressions of sensor s that are not in the registry and
\* expand to no scene path
EmptyTargets(s) ==
    {x \in {sensors[s].raycast_targets_cfg[t].target_prim_expr :
                t \in 1..Len(sensors[s].raycast_targets_cfg)} :
        x \notin DOMAIN meshes /\ Len(find_matching_prim_paths(x)) = 0}

\* C15: an initialization of a sensor one of whose target expressions is not
\* in the registry and expands to no path ends in an error; the sensor has
\* no binding table and no mesh-id table and is not Initialized; no registry
\* entry and no view exist for the expression afterwards and nothing was
\* extracted or uploaded for it; a sensor whose initialization failed is
\* never changed again.
C15_EmptyExpansionAborts ==
    [][\A s \in Sensors :
          /\ (Initializing(s) /\ EmptyTargets(s) # {}) =>
                 /\ sensors'[s].life = "failed" /\ sensors'[s].err # ""
                 /\ sensors'[s].meshes = <<>> /\ sensors'[s].mesh_ids_wp = <<>>
                 /\ \A x \in EmptyTargets(s) :
                        /\ x \notin DOMAIN meshes' /\ x \notin DOMAIN mesh_views'
                        /\ calls'[x].extract = 0 /\ calls'[x].upload = 0
          /\ sensors[s].life = "failed" => sensors'[s] = sensors[s]]_vars

\* C15 witness: a tracking sensor whose first target was resolved and given
\* a view and whose second target expanded to nothing has failed, beside a
\* sensor initialized on the first target.
C15_Witness ==
    \E s \in Sensors :
        /\ sensors[s].life = "failed" /\ sensors[s].err = "RuntimeError: no prim"
        /\ Len(sensors[s].raycast_targets_cfg) = 2
        /\ "ground" \in DOMAIN mesh_views /\ calls["none"].expand >= 1
        /\ \E r \in Sensors \ {s} : sensors[r].life = "init"

\* C16 (as claimed): a resolution pass of a local target ends with
\* per-environment lists only if the number of discovered prims is a
\* multiple of the number of environments; otherwise it ends in an error.
C16_UnevenLocalAborts ==
    (ld.pc = "done" /\ ~ld.is_global) => Len(ld.paths) % NumEnvs = 0

\* the camera has been initialized
CamInitialized(c) == c.life \in {"init", "active"}

\* the ray buffers of camera record c hold one row of num_rays rays for
\* each instance
RayShapesAgree(c) ==
    /\ Len(c.ray_starts) = NumEnvs /\ Len(c.ray_directions) = NumEnvs
    /\ \A i \in Envs : /\ Len(c.ray_starts[i]) = c.num_rays
                        /\ Len(c.ray_directions[i]) = c.num_rays

\* C18: once the camera is initialized, every update, reset and
\* set_intrinsic_matrices call leaves the ray count and the shapes of
\* ray_starts and ray_directions equal to each other and unchanged; updates
\* and resets leave the stored local rays of every instance as they were,
\* and set_intrinsic_matrices with a list of instances changes the rays of
\* no instance outside the list.
C18_PatternFixedAfterInit ==
    [][(CamInitialized(cam) /\ CamInitialized(cam')) =>
          /\ RayShapesAgree(cam) /\ RayShapesAgree(cam')
          /\ cam'.num_rays = cam.num_rays
          /\ last'.op \in {"cam update", "cam update raised",
                           "cam reset(None)", "cam reset(ids)"} =>
                 /\ cam'.ray_starts = cam.ray_starts
                 /\ cam'.ray_directions = cam.ray_directions
          /\ (last'.op = "cam set_intrinsic_matrices" /\ last'.ids # <<>>) =>
                 \A i \in Envs \ Range(last'.ids) :
                     /\ cam'.ray_starts[i] = cam.ray_starts[i]
                     /\ cam'.ray_directions[i] = cam.ray_directions[i]]_vars

\* C18 witness: after set_intrinsic_matrices for instance 1 alone and a
\* later update, the rays of instance 1 follow the new matrix and those of
\* instance 2 the matrix of the configuration.
C18_Witness ==
    /\ cam.life = "active" /\ last.op = "cam update"
    /\ cam.num_rays = NumRays /\ RayShapesAgree(cam)
    /\ cam.intrinsic_matrices[1] = "K1" /\ cam.intrinsic_matrices[2] = "K0"
    /\ cam.ray_directions[1] = PinholePattern("K1").dirs
    /\ cam.ray_directions[2] = PinholePattern("K0").dirs

\* the data types the camera can produce
SupportedTypes == {"distance_to_image_plane", "distance_to_camera", "normals"}

\* C20: a camera configured with a data type outside the three it can
\* produce never becomes initialized.  With a type of UNSUPPORTED_TYPES the
\* constructor fails with nothing of the sensor built and the registry
\* untouched; with any other unknown type the first initialization fails;
\* in both cases no output buffer exists for the type.
C20_UnknownChannelFails ==
    LET bad == Range(cam.data_types) \ SupportedTypes
    IN (cam.life # "absent" /\ bad # {}) =>
          /\ cam.life \in {"uninit", "failed"}
          /\ bad \cap UNSUPPORTED_TYPES # {} =>
                 /\ cam.life = "failed" /\ last.op = "cam construct"
                 /\ cam.base = NoSensor /\ ~cam.cam_cam_data
                 /\ meshes = EmptyDict /\ mesh_views = EmptyDict /\ gpu = <<>>
          /\ bad \cap UNSUPPORTED_TYPES = {} =>
                 /\ cam.life = "uninit" => last.op = "cam construct"
                 /\ cam.life = "failed" =>
                        /\ last.op = "cam initialize"
                        /\ cam.err \in {"ValueError: unknown data type",
                                        "AttributeError: _cam_data"}
          /\ \A name \in bad : name \notin DOMAIN cam.output

\* C20 witness: the camera configured with a supported type followed by
\* the unknown "depth" failed in _create_buffers, after the buffer of the
\* supported type was allocated and the target mesh was loaded.
C20_Witness ==
    /\ cam.data_types = <<"distance_to_camera", "depth">>
    /\ cam.life = "failed" /\ cam.err = "ValueError: unknown data type"
    /\ DOMAIN cam.output = {"distance_to_camera"}
    /\ "ground" \in DOMAIN meshes

\* the stored outputs of camera record c have one row per instance
CamBuffersFull(c) ==
    /\ Len(c.pos_w) = NumEnvs /\ Len(c.ray_hits_w) = NumEnvs
    /\ \A name \in DOMAIN c.output : Len(c.output[name]) = NumEnvs

C21_RegistryWriteOnce ==
    [][\A x \in DOMAIN meshes :
          x \in DOMAIN meshes' /\ meshes'[x] = meshes[x]]_vars

\* C21 witness: "obj" was loaded once, as a local target of a scene of
\* NumEnvs environments, by sensor 1, which has since been updated;
\* another sensor that names it as a global target was initialized with
\* one environment, found it in the registry and bound the stored list of
\* the first environment.
C21_Witness ==
    /\ "obj" \in DOMAIN meshes /\ calls["obj"].expand = 1
    /\ Len(meshes["obj"]) = NumEnvs
    /\ \A e \in Envs : Len(meshes["obj"][e]) = MeshesPerEnv
    /\ meshes["obj"][1] # meshes["obj"][2]
    /\ sensors[1].cfg = Cfg("plain", <<Target("obj", FALSE)>>, TRUE)
    /\ sensors[1].life = "active" /\ Len(sensors[1].drift) = NumEnvs
    /\ \E s \in Sensors \ {1} :
           /\ sensors[s].cfg = Cfg("plain", <<Target("obj", TRUE)>>, FALSE)
           /\ sensors[s].life = "init" /\ Len(sensors[s].drift) = 1
           /\ sensors[s].meshes = <<meshes["obj"][1]>>

\* C22 (as claimed): a camera constructed with supported data types only is
\* Initialized after its initialization, the fields of its data object are
\* filled (poses, intrinsic matrices) and the object holds, for each
\* configured data type and no other, one zero image per instance of shape
\* [height, width], with a trailing 3 for normals.
C22_InitializationFillsCameraData ==
    (last.op = "cam initialize" /\ Range(cam.data_types) \subseteq SupportedTypes) =>
        /\ cam.life = "init" /\ cam.cam_cam_data
        /\ Len(cam.pos_w) = NumEnvs /\ Len(cam.intrinsic_matrices) = NumEnvs
        /\ DOMAIN cam.output = Range(cam.data_types)
        /\ \A name \in DOMAIN cam.output :
               /\ Len(cam.output[name]) = NumEnvs
               /\ \A i \in Envs :
                      /\ cam.output[name][i] = ZeroImage(name)
                      /\ cam.output[name][i].shape =
                             IF name = "normals" THEN <<Height, Width, 3>>
                             ELSE <<Height, Width>>

\* the update and reset calls of the camera, completed or raised
CamUpdateOps == {"cam update", "cam update raised"}
CamResetAllOps == {"cam reset(None)", "cam reset(None) raised"}
CamResetIdsOps == {"cam reset(ids)", "cam reset(ids) raised"}

\* C23 (as claimed): the frame counters of a camera are zero after its
\* initialization; an update for a list of instances adds one to the
\* counter of each listed instance, a reset sets the counters of the
\* instances it names (all of them for None) to zero, and both leave the
\* counter of every other instance as it was; nothing else changes a
\* counter.  Hence each counter is the number of updates that contained the
\* instance since the last reset that contained it, or since initialization.
C23_FrameCountsUpdatesSinceReset ==
    [][/\ (last'.op = "cam initialize" /\ Len(cam'.frame) = NumEnvs) =>
             cam'.frame = [i \in Envs |-> 0]
       /\ (Len(cam.frame) = NumEnvs /\ Len(cam'.frame) = NumEnvs) =>
             \A i \in Envs :
                 cam'.frame[i] =
                     IF last'.op \in CamUpdateOps /\ i \in Range(last'.ids)
                     THEN cam.frame[i] + 1
                     ELSE IF last'.op \in CamResetAllOps
                             \/ (last'.op \in CamResetIdsOps /\ i \in Range(last'.ids))
                     THEN 0
                     ELSE cam.frame[i]]_vars

====
